---------------------------- MODULE Spec2Model ----------------------------
(***************************************************************************)
(* Model of sim_serial.c: the open-device registry, the device catalog and *)
(* name resolution, the host enumeration, the port session (open/close),   *)
(* configuration and DTR control, and the two sim_read_serial stream       *)
(* decoders (termios PARMRK decoding and the Windows CE_BREAK heuristic).  *)
(*                                                                         *)
(* C arrays are 0-based; TLA+ sequences are 1-based.  All indices kept in  *)
(* the model (cptr, bptr, BREAK flag positions) are the C (0-based) ones   *)
(* and element i of a C array is element i+1 of the sequence.              *)
(***************************************************************************)
EXTENDS Integers, Sequences, FiniteSets, TLC

VARIABLES
    backend,              \* which #if branch was compiled: "unix" or "win32"
    host_devs,            \* the serial devices the host enumeration reports
    serial_open_devices,  \* the open-device list (serial_open_device_count = Len)
    os_open,              \* descriptors / handles that are open at OS level
    closed,               \* history: handles that sim_close_serial has released
    before,               \* history: serial_open_devices before the last call
    raw,                  \* bytes the host read call put into the buffer
    buffer,               \* the caller's buffer after the read (filled part)
    brkset,               \* slots of the caller's brk array the read set to 1
    last                  \* the last call: [op, arg, ret, diag]

vars == <<backend, host_devs, serial_open_devices, os_open, closed, before,
          raw, buffer, brkset, last>>

portVars == <<serial_open_devices, os_open, closed, before>>
readVars == <<raw, buffer, brkset>>

-----------------------------------------------------------------------------
(* Bounds of the model *)

\* longest host read on the UNIX backend
MaxRead == 5
\* longest host read on the Windows backend
MaxWinRead == 4

(* Program constants *)

\* '\377', the PARMRK marker byte
ESC == 255
\* '\0'
NUL == 0
\* an ordinary data byte (0x41)
DataByte == CHOOSE b \in {65} : TRUE

\* byte values the host delivers: the two reserved values and a data byte
Bytes == {NUL, DataByte, ESC}

\* memchr's NULL result
NoPtr == -1

\* value of a buffer position the host read did not fill
Indeterminate == -2

RECURSIVE SeqsUpTo(_)
SeqsUpTo(n) ==
    IF n = 0 THEN {<<>>}
    ELSE LET S == SeqsUpTo(n - 1)
         IN  S \cup {Append(s, b) : s \in {t \in S : Len(t) = n - 1}, b \in Bytes}

\* every byte sequence one host read can deliver
RawReads == SeqsUpTo(MaxRead)
WinRawReads == SeqsUpTo(MaxWinRead)

Min(S) == CHOOSE x \in S : \A y \in S : x <= y

-----------------------------------------------------------------------------
(* C memory primitives on the filled part of the buffer *)

\* buffer[i]
Rd(buf, i) == IF i >= 0 /\ i < Len(buf) THEN buf[i + 1] ELSE Indeterminate

\* memchr (buffer + from, c, n): index of the first c in [from, from+n), or NoPtr
memchr(buf, from, c, n) ==
    LET hits == {i \in from .. (from + n - 1) : Rd(buf, i) = c}
    IN  IF hits = {} THEN NoPtr ELSE Min(hits)

\* memmove (buffer + dst, buffer + src, n)
memmove(buf, dst, src, n) ==
    [i \in 1 .. Len(buf) |->
        IF (i - 1) >= dst /\ (i - 1) < dst + n
        THEN Rd(buf, (i - 1) - dst + src)
        ELSE buf[i]]

-----------------------------------------------------------------------------
(* sim_read_serial, UNIX: PARMRK decoding (Encoding A)                     *)
(* The scan state is [buf, read_count, remaining, cptr, brk].              *)

\* cptr = buffer; remaining = read_count;
ScanInitWholeBuffer(bytes) ==
    [buf |-> bytes, read_count |-> Len(bytes), remaining |-> Len(bytes),
     cptr |-> 0, brk |-> {}]

\* cptr = buffer; remaining = read_count - 1;
ScanInit(bytes) ==
    [buf |-> bytes, read_count |-> Len(bytes), remaining |-> Len(bytes) - 1,
     cptr |-> 0, brk |-> {}]

\* \377 \377: slide the string backward to leave the first \377
CollapsePairSignSlip(s, bptr, rem) ==
    [s EXCEPT !.buf = memmove(s.buf, bptr + 1, bptr + 2, rem),
              !.remaining = rem - 1,
              !.read_count = s.read_count + 1,
              !.cptr = bptr + 1]

CollapsePair(s, bptr, rem) ==
    [s EXCEPT !.buf = memmove(s.buf, bptr + 1, bptr + 2, rem),
              !.remaining = rem - 1,
              !.read_count = s.read_count - 1,
              !.cptr = bptr + 1]

\* \377 \000 \ccc: slide the string backward to leave \ccc; flag a BREAK
CollapseTripleInputIndex(s, bptr, rem) ==
    LET moved == memmove(s.buf, bptr, bptr + 2, rem)
        nread == Len(s.buf) - s.read_count
    IN  [s EXCEPT !.buf = moved,
                  !.remaining = rem - 2,
                  !.read_count = s.read_count - 2,
                  !.brk = IF Rd(moved, bptr) = NUL
                          THEN s.brk \cup {bptr + nread} ELSE s.brk,
                  !.cptr = bptr + 1]

CollapseTriple(s, bptr, rem) ==
    LET moved == memmove(s.buf, bptr, bptr + 2, rem)
    IN  [s EXCEPT !.buf = moved,
                  !.remaining = rem - 2,
                  !.read_count = s.read_count - 2,
                  !.brk = IF Rd(moved, bptr) = NUL
                          THEN s.brk \cup {bptr} ELSE s.brk,
                  !.cptr = bptr + 1]

\* one pass of the while body, bptr being memchr's result
ScanBodyNoPayloadCheck(s, bptr) ==
    LET rem == s.remaining - (bptr - s.cptr) - 1
    IN  IF Rd(s.buf, bptr + 1) = ESC THEN CollapsePair(s, bptr, rem)
        ELSE IF Rd(s.buf, bptr + 1) = NUL
             THEN CollapseTriple(s, bptr, rem)
        ELSE [s EXCEPT !.remaining = rem, !.cptr = bptr + 1]

ScanBodyRescan(s, bptr) ==
    LET rem == s.remaining - (bptr - s.cptr) - 1
    IN  IF Rd(s.buf, bptr + 1) = ESC THEN CollapsePair(s, bptr, rem)
        ELSE IF rem > 0 /\ Rd(s.buf, bptr + 1) = NUL
             THEN [CollapseTriple(s, bptr, rem) EXCEPT !.cptr = bptr,
                                                       !.remaining = rem - 1]
        ELSE [s EXCEPT !.remaining = rem, !.cptr = bptr + 1]

ScanBody(s, bptr) ==
    LET rem == s.remaining - (bptr - s.cptr) - 1
    IN  IF Rd(s.buf, bptr + 1) = ESC THEN CollapsePair(s, bptr, rem)
        ELSE IF rem > 0 /\ Rd(s.buf, bptr + 1) = NUL
             THEN CollapseTriple(s, bptr, rem)
        ELSE [s EXCEPT !.remaining = rem, !.cptr = bptr + 1]

\* while (remaining > 0 && (bptr = memchr (cptr, '\377', remaining))) ...
RECURSIVE ScanLoop(_)
ScanLoop(s) ==
    IF s.remaining > 0 /\ memchr(s.buf, s.cptr, ESC, s.remaining) # NoPtr
    THEN ScanLoop(ScanBody(s, memchr(s.buf, s.cptr, ESC, s.remaining)))
    ELSE s

\* the else branch of sim_read_serial: decode what read() delivered
UnixDecode(bytes) == ScanLoop(ScanInit(bytes))

\* the scan states at the top of each pass of the while loop, in order; the
\* last one is the state in which the loop condition fails
RECURSIVE ScanPasses(_)
ScanPasses(s) ==
    IF s.remaining > 0 /\ memchr(s.buf, s.cptr, ESC, s.remaining) # NoPtr
    THEN <<s>> \o ScanPasses(ScanBody(s, memchr(s.buf, s.cptr, ESC, s.remaining)))
    ELSE <<s>>

\* a range of buffer (or brk) positions an access touches: [lo, lo + len)
Access(what, lo, len) == [what |-> what, lo |-> lo, len |-> len]

\* the accesses of one evaluation of the loop condition in scan state s and,
\* when it holds, of the loop body
PassAccesses(s) ==
    IF s.remaining <= 0 THEN {}
    ELSE LET bptr == memchr(s.buf, s.cptr, ESC, s.remaining)
             rem  == s.remaining - (bptr - s.cptr) - 1
         IN  {Access("memchr", s.cptr, s.remaining)}
             \cup
             (IF bptr = NoPtr THEN {}
              ELSE {Access("*(bptr + 1)", bptr + 1, 1)}
                   \cup
                   (IF Rd(s.buf, bptr + 1) = ESC
                    THEN {Access("memmove dst", bptr + 1, rem),
                          Access("memmove src", bptr + 2, rem)}
                    ELSE IF rem > 0 /\ Rd(s.buf, bptr + 1) = NUL
                    THEN {Access("memmove dst", bptr, rem),
                          Access("memmove src", bptr + 2, rem),
                          Access("*bptr", bptr, 1)}
                         \cup
                         (IF Rd(memmove(s.buf, bptr, bptr + 2, rem), bptr) = NUL
                          THEN {Access("brk", bptr, 1)} ELSE {})
                    ELSE {}))

\* every access the decoding of one read makes
ScanAccesses(bytes) ==
    LET passes == ScanPasses(ScanInit(bytes))
    IN  UNION {PassAccesses(passes[i]) : i \in 1 .. Len(passes)}

\* the first n characters of the buffer, i.e. what the caller is told is there
Returned(buf, n) == SubSeq(buf, 1, n)


\* what the host's read() did: bytes delivered, or -1 with errno
UnixHostReads ==
    {[read_count |-> Len(b), errno |-> "none", bytes |-> b] : b \in RawReads}
    \cup {[read_count |-> -1, errno |-> e, bytes |-> <<>>] : e \in {"EAGAIN", "EIO"}}

\* sim_read_serial (UNIX) as a function of the host's answer
UnixRead(host) ==
    IF host.read_count = -1
    THEN IF host.errno = "EAGAIN"
         THEN [ret |-> 0, buf |-> <<>>, brk |-> {}, diag |-> "none"]
         ELSE [ret |-> host.read_count, buf |-> <<>>, brk |-> {}, diag |-> "read"]
    ELSE LET s == UnixDecode(host.bytes)
         IN  [ret |-> s.read_count, buf |-> s.buf, brk |-> s.brk, diag |-> "none"]

sim_read_serial_unix ==
    /\ backend = "unix"
    /\ \E host \in UnixHostReads :
          \E r \in {UnixRead(host)} :
              /\ raw' = host.bytes
              /\ buffer' = r.buf
              /\ brkset' = r.brk
              /\ last' = [op |-> "read", arg |-> [errno |-> host.errno],
                          ret |-> r.ret, diag |-> r.diag]
    /\ UNCHANGED <<backend, host_devs, portVars>>

-----------------------------------------------------------------------------
(* sim_read_serial, Windows: CE_BREAK heuristic (Encoding B)               *)

\* bptr = memchr (buffer, 0, read); if (bptr) brk = brk + (bptr - buffer);
WinBreakPosFirstChar(buf, read) == 0

WinBreakPos(buf, read) ==
    IF memchr(buf, 0, NUL, read) # NoPtr THEN memchr(buf, 0, NUL, read) ELSE 0

\* what ClearCommError and ReadFile did
WinHostReads ==
    {[clear_ok |-> TRUE, read_ok |-> TRUE, ce_break |-> k, bytes |-> b] :
        k \in BOOLEAN, b \in WinRawReads}
    \cup {[clear_ok |-> FALSE, read_ok |-> TRUE, ce_break |-> FALSE, bytes |-> <<>>],
          [clear_ok |-> TRUE, read_ok |-> FALSE, ce_break |-> FALSE, bytes |-> <<>>],
          [clear_ok |-> TRUE, read_ok |-> FALSE, ce_break |-> TRUE, bytes |-> <<>>]}

\* sim_read_serial (Windows) as a function of the host's answers
WinRead(host) ==
    IF ~host.clear_ok
    THEN [ret |-> -1, buf |-> <<>>, brk |-> {}, diag |-> "ClearCommError"]
    ELSE IF ~host.read_ok
    THEN [ret |-> -1, buf |-> <<>>, brk |-> {}, diag |-> "ReadFile"]
    ELSE [ret |-> Len(host.bytes), buf |-> host.bytes,
          brk |-> IF host.ce_break
                  THEN {WinBreakPos(host.bytes, Len(host.bytes))} ELSE {},
          diag |-> "none"]

sim_read_serial_win32 ==
    /\ backend = "win32"
    /\ \E host \in WinHostReads :
          \E r \in {WinRead(host)} :
              /\ raw' = host.bytes
              /\ buffer' = r.buf
              /\ brkset' = r.brk
              /\ last' = [op |-> "read",
                          arg |-> [ce_break |-> host.ce_break,
                                   failed |-> ~(host.clear_ok /\ host.read_ok)],
                          ret |-> r.ret, diag |-> r.diag]
    /\ UNCHANGED <<backend, host_devs, portVars>>

-----------------------------------------------------------------------------
(* Strings.  A C string is the sequence of its character codes (ASCII),    *)
(* without the terminating NUL; s[i] of the C code is CharAt(s, i).        *)

\* a NULL char pointer (no string has a negative character)
NullStr == <<-1>>

strlen(s) == Len(s)

\* s[i], the terminating '\0' included
CharAt(s, i) == IF i < Len(s) THEN s[i + 1] ELSE 0

isdigit(c) == c >= 48 /\ c <= 57
islower(c) == c >= 97 /\ c <= 122
isupper(c) == c >= 65 /\ c <= 90
tolower(c) == IF isupper(c) THEN c + 32 ELSE c
toupper(c) == IF islower(c) THEN c - 32 ELSE c

\* strcmp: -1, 0 or 1 for less, equal, greater (bytes compared unsigned)
RECURSIVE strcmpFrom(_, _, _)
strcmpFrom(a, b, i) ==
    IF CharAt(a, i) < CharAt(b, i) THEN -1
    ELSE IF CharAt(a, i) > CharAt(b, i) THEN 1
    ELSE IF CharAt(a, i) = 0 THEN 0
    ELSE strcmpFrom(a, b, i + 1)

strcmp(a, b) == strcmpFrom(a, b, 0)

\* atoi on a digit string starting at s[i] (no sign, no white space here)
RECURSIVE atoiFrom(_, _, _)
atoiFrom(s, i, acc) ==
    IF isdigit(CharAt(s, i)) THEN atoiFrom(s, i + 1, 10 * acc + (CharAt(s, i) - 48))
    ELSE acc

atoi(s, i) == atoiFrom(s, i, 0)

-----------------------------------------------------------------------------
(* The open-device list *)

\* _serial_add_to_open_list: append; a NULL desc leaves the zeroed field
_serial_add_to_open_list(list, port, line, name, desc) ==
    Append(list, [port |-> port, line |-> line, name |-> name,
                  desc |-> IF desc = NullStr THEN <<>> ELSE desc])

\* index (1-based) of the first entry whose port is the given one, 0 if none
FirstMatch(list, port) ==
    IF \E i \in 1 .. Len(list) : list[i].port = port
    THEN Min({i \in 1 .. Len(list) : list[i].port = port})
    ELSE 0

\* _serial_remove_from_open_list: shift the entries after the first match left
\* (RemoveSwapLast fills the hole with the last entry instead)
RemoveSwapLast(list, port) ==
    LET i == FirstMatch(list, port)
    IN  IF i = 0 THEN list
        ELSE [j \in 1 .. Len(list) - 1 |-> IF j = i THEN list[Len(list)] ELSE list[j]]

\* the count decremented outside the if: the last entry is dropped when
\* nothing matches
RemoveDecrementsAlways(list, port) ==
    LET i == FirstMatch(list, port)
    IN  IF i = 0 THEN SubSeq(list, 1, Len(list) - 1)
        ELSE [j \in 1 .. Len(list) - 1 |-> IF j < i THEN list[j] ELSE list[j + 1]]

\* the shift started one entry early (j = i): the entry before the match is
\* overwritten
RemoveShiftFromMatch(list, port) ==
    LET i == FirstMatch(list, port)
    IN  IF i = 0 THEN list
        ELSE [j \in 1 .. Len(list) - 1 |-> IF j < i - 1 THEN list[j] ELSE list[j + 1]]

_serial_remove_from_open_list(list, port) ==
    LET i == FirstMatch(list, port)
    IN  IF i = 0 THEN list
        ELSE [j \in 1 .. Len(list) - 1 |-> IF j < i THEN list[j] ELSE list[j + 1]]

-----------------------------------------------------------------------------
(* The device catalog: sim_serial_devices *)

\* maximum serial devices
SER_MAX_DEVICE == 64

\* sim_serial_os_devices: at most max of the devices the host reports
sim_serial_os_devices(max, host) ==
    SubSeq(host, 1, IF Len(host) < max THEN Len(host) ELSE max)

\* the loop of sim_serial_devices over serial_open_devices[i], i = k-1 ...
RECURSIVE MergeOpen(_, _, _, _)
MergeOpen(list, open, k, max) ==
    IF k > Len(open) THEN list
    ELSE IF \E j \in 1 .. Len(list) : strcmp(open[k].name, list[j].name) = 0
         THEN MergeOpen(list, open, k + 1, max)
    ELSE IF Len(list) >= max THEN list
    ELSE MergeOpen(Append(list, [name |-> open[k].name, desc |-> open[k].desc]),
                   open, k + 1, max)

\* qsort with _serial_name_compare: ascending by strcmp of the names
RECURSIVE SortByName(_)
SortByName(list) ==
    IF Len(list) <= 1 THEN list
    ELSE LET m == CHOOSE i \in 1 .. Len(list) :
                     \A j \in 1 .. Len(list) :
                        \/ strcmp(list[i].name, list[j].name) < 0
                        \/ (strcmp(list[i].name, list[j].name) = 0 /\ i <= j)
             rest == [j \in 1 .. Len(list) - 1 |->
                         IF j < m THEN list[j] ELSE list[j + 1]]
         IN  <<list[m]>> \o SortByName(rest)

\* sim_serial_devices: the host's ports, the open ports not among them, sorted
\* (DevicesUnsorted leaves the qsort out)
DevicesUnsorted(max, host, open) ==
    MergeOpen(sim_serial_os_devices(max, host), open, 1, max)

sim_serial_devices(max, host, open) ==
    SortByName(MergeOpen(sim_serial_os_devices(max, host), open, 1, max))

-----------------------------------------------------------------------------
(* Name resolution *)

\* sim_serial_getname: the name of entry number, or NULL
sim_serial_getname(number, host, open) ==
    LET list == sim_serial_devices(SER_MAX_DEVICE, host, open)
    IN  IF Len(list) <= number THEN NullStr ELSE list[number + 1].name

\* the test of the loop body of sim_serial_getname_bydesc
\* (DescMatchesPrefix is the loop without "if (j != k) continue;")
DescMatchesPrefix(desc, entry) ==
    \A k \in 0 .. strlen(desc) - 1 :
        tolower(CharAt(entry.desc, k)) = tolower(CharAt(desc, k))

DescMatches(desc, entry) ==
    /\ strlen(desc) = strlen(entry.desc)
    /\ \A k \in 0 .. strlen(desc) - 1 :
          tolower(CharAt(entry.desc, k)) = tolower(CharAt(desc, k))

\* sim_serial_getname_bydesc: the name of the first entry whose description
\* matches, or NULL
sim_serial_getname_bydesc(desc, host, open) ==
    LET list == sim_serial_devices(SER_MAX_DEVICE, host, open)
        hits == {i \in 1 .. Len(list) : DescMatches(desc, list[i])}
    IN  IF hits = {} THEN NullStr ELSE list[Min(hits)].name

\* sim_serial_strncasecmp
RECURSIVE strncasecmpFrom(_, _, _, _)
strncasecmpFrom(string1, string2, len, i) ==
    IF i >= len THEN 0
    ELSE LET s1 == toupper(CharAt(string1, i))
             s2 == toupper(CharAt(string2, i))
         IN  IF s1 < s2 THEN -1
             ELSE IF s1 > s2 THEN 1
             ELSE IF s1 = 0 THEN 0
             ELSE strncasecmpFrom(string1, string2, len, i + 1)

sim_serial_strncasecmp(string1, string2, len) ==
    strncasecmpFrom(string1, string2, len, 0)

\* the test shared by sim_serial_getname_byname and sim_serial_getdesc_byname
NameMatches(name, entry) ==
    /\ strlen(name) = strlen(entry.name)
    /\ sim_serial_strncasecmp(name, entry.name, strlen(name)) = 0

\* sim_serial_getname_byname: the catalog's spelling of the name, or NULL
sim_serial_getname_byname(name, host, open) ==
    LET list == sim_serial_devices(SER_MAX_DEVICE, host, open)
        hits == {i \in 1 .. Len(list) : NameMatches(name, list[i])}
    IN  IF hits = {} THEN NullStr ELSE list[Min(hits)].name

\* sim_serial_getdesc_byname: the description of the first entry with that
\* name, or NULL
sim_serial_getdesc_byname(name, host, open) ==
    LET list == sim_serial_devices(SER_MAX_DEVICE, host, open)
        hits == {i \in 1 .. Len(list) : NameMatches(name, list[i])}
    IN  IF hits = {} THEN NullStr ELSE list[Min(hits)].desc

\* the test "name of type serX" of sim_open_serial
IsSerX(name) ==
    /\ strlen(name) <= 5
    /\ tolower(CharAt(name, 0)) = 115
    /\ tolower(CharAt(name, 1)) = 101
    /\ tolower(CharAt(name, 2)) = 114
    /\ isdigit(CharAt(name, 3))
    /\ (isdigit(CharAt(name, 4)) \/ CharAt(name, 4) = 0)

\* the translation with sim_serial_getname_byname asked before
\* sim_serial_getname_bydesc
TranslateNameFirst(name, host, open) ==
    IF IsSerX(name)
    THEN LET savname == sim_serial_getname(atoi(name, 3), host, open)
         IN  IF savname = NullStr
             THEN [ok |-> FALSE, how |-> "index", savname |-> NullStr,
                   savdesc |-> NullStr]
             ELSE [ok |-> TRUE, how |-> "index", savname |-> savname,
                   savdesc |-> sim_serial_getdesc_byname(savname, host, open)]
    ELSE LET bydesc == sim_serial_getname_bydesc(name, host, open)
             byname == sim_serial_getname_byname(name, host, open)
         IN  IF byname # NullStr
             THEN [ok |-> TRUE, how |-> "name", savname |-> byname,
                   savdesc |-> sim_serial_getdesc_byname(byname, host, open)]
             ELSE IF bydesc = NullStr
             THEN [ok |-> TRUE, how |-> "literal", savname |-> name,
                   savdesc |-> NullStr]
             ELSE [ok |-> TRUE, how |-> "desc", savname |-> bydesc, savdesc |-> name]

\* the name translation of sim_open_serial: [ok, how, savname, savdesc]; ok
\* is FALSE where the function returns INVALID_HANDLE before opening anything,
\* how is the branch that set savname: "index" (serX), "desc"
\* (sim_serial_getname_bydesc), "name" (sim_serial_getname_byname), "literal"
\* (savname = name)
Translate(name, host, open) ==
    IF IsSerX(name)
    THEN LET savname == sim_serial_getname(atoi(name, 3), host, open)
         IN  IF savname = NullStr
             THEN [ok |-> FALSE, how |-> "index", savname |-> NullStr,
                   savdesc |-> NullStr]
             ELSE [ok |-> TRUE, how |-> "index", savname |-> savname,
                   savdesc |-> sim_serial_getdesc_byname(savname, host, open)]
    ELSE LET bydesc == sim_serial_getname_bydesc(name, host, open)
             byname == sim_serial_getname_byname(name, host, open)
         IN  IF bydesc # NullStr
             THEN [ok |-> TRUE, how |-> "desc", savname |-> bydesc, savdesc |-> name]
             ELSE IF byname = NullStr
             THEN [ok |-> TRUE, how |-> "literal", savname |-> name,
                   savdesc |-> NullStr]
             ELSE [ok |-> TRUE, how |-> "name", savname |-> byname,
                   savdesc |-> sim_serial_getdesc_byname(byname, host, open)]

-----------------------------------------------------------------------------
(* The port session: sim_open_os_serial, sim_open_serial, sim_close_serial *)

\* most ports open at once
MaxPorts == 2

\* the value sim_open_os_serial returns on failure
INVALID_HANDLE == -1

\* descriptor numbers / handle values the OS hands out
Handles == 1 .. MaxPorts

\* the TMLN line that asks for ports
Lines == {"ln0"}

\* the descriptor open() returns: the lowest one not in use (none when the
\* descriptor table is full)
LowestFree(inuse) ==
    IF Handles \ inuse = {} THEN {} ELSE {Min(Handles \ inuse)}

\* what the host calls made by sim_open_os_serial (UNIX) can do
UnixOpenOutcomes(inuse) ==
    {[step |-> "open", errno |-> e, port |-> INVALID_HANDLE] :
        e \in {"ENOENT", "EACCES", "EBUSY", "EIO"}}
    \cup {[step |-> s, errno |-> e, port |-> h] :
            s \in {"isatty", "tcgetattr", "tcsetattr"}, e \in {"EIO"},
            h \in LowestFree(inuse)}
    \cup {[step |-> "none", errno |-> "none", port |-> h] : h \in LowestFree(inuse)}

\* sim_open_os_serial (UNIX): [port, diag]; on every failure after open()
\* the descriptor has been closed again
sim_open_os_serial_unix(o) ==
    IF o.step = "open"
    THEN [port |-> INVALID_HANDLE,
          diag |-> IF o.errno # "ENOENT" /\ o.errno # "EACCES" THEN "open" ELSE "none"]
    ELSE IF o.step = "isatty" THEN [port |-> INVALID_HANDLE, diag |-> "none"]
    ELSE IF o.step = "tcgetattr" THEN [port |-> INVALID_HANDLE, diag |-> "tcgetattr"]
    ELSE IF o.step = "tcsetattr" THEN [port |-> INVALID_HANDLE, diag |-> "tcsetattr"]
    ELSE [port |-> o.port, diag |-> "none"]

\* what the host calls made by sim_open_os_serial (Windows) can do: step is
\* the call that fails ("none": all succeed), port the handle CreateFile
\* returned, which is some handle value not in use.  Where a later call fails
\* the handle is closed again and its value does not matter.
WinOpenOutcomes(inuse) ==
    {[step |-> s, errno |-> e, port |-> INVALID_HANDLE] :
        s \in {"GetDefaultCommConfig"},
        e \in {"ERROR_INVALID_PARAMETER", "ERROR_GEN_FAILURE"}}
    \cup {[step |-> s, errno |-> e, port |-> INVALID_HANDLE] :
            s \in {"CreateFile"},
            e \in {"ERROR_FILE_NOT_FOUND", "ERROR_ACCESS_DENIED", "ERROR_GEN_FAILURE"}}
    \cup {[step |-> s, errno |-> e, port |-> h] :
            s \in {"GetCommState"},
            e \in {"ERROR_INVALID_PARAMETER", "ERROR_GEN_FAILURE"},
            h \in LowestFree(inuse)}
    \cup {[step |-> s, errno |-> e, port |-> h] :
            s \in {"SetCommState", "SetCommTimeouts"}, e \in {"ERROR_GEN_FAILURE"},
            h \in LowestFree(inuse)}
    \cup {[step |-> "none", errno |-> "none", port |-> h] : h \in Handles \ inuse}

\* sim_open_os_serial (Windows)
sim_open_os_serial_win32(o) ==
    IF o.step = "GetDefaultCommConfig"
    THEN [port |-> INVALID_HANDLE,
          diag |-> IF o.errno # "ERROR_INVALID_PARAMETER"
                   THEN "GetDefaultCommConfig" ELSE "none"]
    ELSE IF o.step = "CreateFile"
    THEN [port |-> INVALID_HANDLE,
          diag |-> IF o.errno # "ERROR_FILE_NOT_FOUND" /\ o.errno # "ERROR_ACCESS_DENIED"
                   THEN "CreateFile" ELSE "none"]
    ELSE IF o.step = "GetCommState"
    THEN [port |-> INVALID_HANDLE,
          diag |-> IF o.errno # "ERROR_INVALID_PARAMETER"
                   THEN "GetCommState" ELSE "none"]
    ELSE IF o.step = "SetCommState"
    THEN [port |-> INVALID_HANDLE, diag |-> "SetCommState"]
    ELSE IF o.step = "SetCommTimeouts"
    THEN [port |-> INVALID_HANDLE, diag |-> "SetCommTimeouts"]
    ELSE [port |-> o.port, diag |-> "none"]

sim_open_os_serial(o) ==
    IF backend = "unix" THEN sim_open_os_serial_unix(o) ELSE sim_open_os_serial_win32(o)

OpenOutcomes ==
    IF backend = "unix" THEN UnixOpenOutcomes(os_open) ELSE WinOpenOutcomes(os_open)

\* if (port != INVALID_HANDLE) _serial_add_to_open_list (port, lp, savname, savdesc);
RegisterAlways(list, port, lp, savname, savdesc) ==
    _serial_add_to_open_list(list, port, lp, savname, savdesc)

RegisterOpened(list, port, lp, savname, savdesc) ==
    IF port # INVALID_HANDLE
    THEN _serial_add_to_open_list(list, port, lp, savname, savdesc)
    ELSE list

\* names the caller passes to sim_open_serial:
\* "ser0", "ser9", "com1", "x"
PortNames ==
    {<<115, 101, 114, 48>>, <<115, 101, 114, 57>>, <<99, 111, 109, 49>>, <<120>>}

\* sim_open_serial (name, lp) for a name of names; hostopen[savname] is what
\* the host's calls can do when sim_open_os_serial (savname) makes them.
\* last records the branch taken, the savname and savdesc passed on (savname
\* NULL: sim_open_os_serial was not called) and the host call that failed
OpenSerial(names, hostopen) ==
    /\ \E name \in names, lp \in Lines :
          \E t \in {Translate(name, host_devs, serial_open_devices)} :
              IF ~t.ok
              THEN /\ last' = [op |-> "open", arg |-> name,
                               ret |-> INVALID_HANDLE, diag |-> "none",
                               how |-> t.how, savname |-> NullStr,
                               savdesc |-> NullStr,
                               host |-> [step |-> "none", errno |-> "none"]]
                   /\ UNCHANGED <<serial_open_devices, os_open>>
              ELSE \E o \in hostopen[t.savname] :
                      LET r == sim_open_os_serial(o)
                      IN  /\ serial_open_devices' =
                                RegisterOpened(serial_open_devices, r.port, lp,
                                               t.savname, t.savdesc)
                          /\ os_open' = IF r.port # INVALID_HANDLE
                                        THEN os_open \cup {r.port} ELSE os_open
                          /\ last' = [op |-> "open", arg |-> name,
                                      ret |-> r.port, diag |-> r.diag,
                                      how |-> t.how, savname |-> t.savname,
                                      savdesc |-> t.savdesc,
                                      host |-> [step |-> o.step, errno |-> o.errno]]
    /\ before' = serial_open_devices
    /\ UNCHANGED <<backend, host_devs, closed, readVars>>

\* the names sim_open_os_serial can be called with
PortDevices == PortNames \cup {host_devs[i].name : i \in 1 .. Len(host_devs)}

\* any of them may be a port of the host, and any host call may fail
PortHost == [n \in PortDevices |-> OpenOutcomes]

sim_open_serial == OpenSerial(PortNames, PortHost)

\* sim_close_os_serial: close (port) / CloseHandle (port); errors are ignored
sim_close_os_serial(open, port) == open \ {port}

sim_close_serial ==
    /\ \E port \in Handles \cup {INVALID_HANDLE} :
          /\ os_open' = sim_close_os_serial(os_open, port)
          /\ serial_open_devices' =
                _serial_remove_from_open_list(serial_open_devices, port)
          /\ closed' = IF port \in os_open THEN closed \cup {port} ELSE closed
          /\ last' = [op |-> "close", arg |-> port, ret |-> 0, diag |-> "none"]
    /\ before' = serial_open_devices
    /\ UNCHANGED <<backend, host_devs, readVars>>

-----------------------------------------------------------------------------
(* The two list functions called the way sim_open_serial and               *)
(* sim_close_serial call them: a port is added when the OS has just handed *)
(* it out, so it is not the port of an entry already in the list; any      *)
(* handle value may be removed.                                            *)

\* most entries in the list
MaxReg == 3

RegHandles == 1 .. MaxReg

\* "/dev/ttyS0" without a description, "COM1" with the description "S0"
RegNames == {[name |-> <<47, 100, 101, 118, 47, 116, 116, 121, 83, 48>>, desc |-> NullStr],
             [name |-> <<67, 79, 77, 49>>, desc |-> <<83, 48>>]}

serial_add_to_open_list ==
    /\ Len(serial_open_devices) < MaxReg
    /\ \E port \in RegHandles, lp \in Lines, d \in RegNames :
          /\ \A i \in 1 .. Len(serial_open_devices) :
                serial_open_devices[i].port # port
          /\ serial_open_devices' =
                _serial_add_to_open_list(serial_open_devices, port, lp, d.name, d.desc)
          /\ last' = [op |-> "add", arg |-> port, ret |-> 0, diag |-> "none"]
    /\ before' = serial_open_devices
    /\ UNCHANGED <<backend, host_devs, os_open, closed, readVars>>

serial_remove_from_open_list ==
    /\ \E port \in RegHandles \cup {INVALID_HANDLE} :
          /\ serial_open_devices' =
                _serial_remove_from_open_list(serial_open_devices, port)
          /\ last' = [op |-> "remove", arg |-> port, ret |-> 0, diag |-> "none"]
    /\ before' = serial_open_devices
    /\ UNCHANGED <<backend, host_devs, os_open, closed, readVars>>

\* the host's device list per backend: "/dev/ttyS0", "/dev/ttyS1" without
\* descriptions on UNIX; "COM2" and "COM1", in the order of the registry
\* values, on Windows (their value names shortened to "S1" and "S0")
HostDevices(b) ==
    IF b = "unix"
    THEN << [name |-> <<47, 100, 101, 118, 47, 116, 116, 121, 83, 48>>, desc |-> <<>>],
            [name |-> <<47, 100, 101, 118, 47, 116, 116, 121, 83, 49>>, desc |-> <<>>] >>
    ELSE << [name |-> <<67, 79, 77, 50>>, desc |-> <<83, 49>>],
            [name |-> <<67, 79, 77, 49>>, desc |-> <<83, 48>>] >>

-----------------------------------------------------------------------------
(* The catalog function on its own: sim_serial_devices (max, list) for any  *)
(* max, over the host lists and the open-device lists the program can have  *)

\* host lists: on UNIX "/dev/ttyS2", "/dev/ttyS10" in the order the probing
\* loop finds them; on Windows the values of the SERIALCOMM key in the order
\* RegEnumValue returns them: "com1" (value "S1"), "COM1" (value "S0"); or
\* "COM2" (value "ser9"), "COM1" (value "COM2")
Catalogs(b) ==
    IF b = "unix"
    THEN { << [name |-> <<47, 100, 101, 118, 47, 116, 116, 121, 83, 50>>, desc |-> <<>>],
              [name |-> <<47, 100, 101, 118, 47, 116, 116, 121, 83, 49, 48>>,
               desc |-> <<>>] >> }
    ELSE { << [name |-> <<99, 111, 109, 49>>, desc |-> <<83, 49>>],
              [name |-> <<67, 79, 77, 49>>, desc |-> <<83, 48>>] >>,
           << [name |-> <<67, 79, 77, 50>>, desc |-> <<115, 101, 114, 57>>],
              [name |-> <<67, 79, 77, 49>>, desc |-> <<67, 79, 77, 50>>] >> }

\* ports that exist on the host and that its enumeration does not report:
\* "/dev/pts/1" and "ser999" (a link to a terminal in the working directory)
\* on UNIX; "CNCB0", "CNCA0" on Windows
Uncatalogued(b) ==
    IF b = "unix"
    THEN << <<47, 100, 101, 118, 47, 112, 116, 115, 47, 49>>,
            <<115, 101, 114, 57, 57, 57>> >>
    ELSE << <<67, 78, 67, 66, 48>>, <<67, 78, 67, 65, 48>> >>

\* most entries of the open-device list when the catalog is taken
MaxOpenList == 2

\* largest max passed to sim_serial_devices
MaxList == 3

\* what an open port is registered as: a port of the host list under its
\* name and description, or an unreported port under its name alone
OpenEntries(b, host) ==
    {[name |-> host[i].name, desc |-> host[i].desc] : i \in 1 .. Len(host)}
    \cup {[name |-> Uncatalogued(b)[i], desc |-> <<>>] : i \in 1 .. Len(Uncatalogued(b))}

\* the open-device lists of up to MaxOpenList ports, one handle each; Windows
\* opens a port exclusively, so no name is open twice there
OpenLists(b, host) ==
    {[i \in 1 .. Len(q) |-> [port |-> i, line |-> "ln0",
                              name |-> q[i].name, desc |-> q[i].desc]] :
        q \in {x \in UNION {[1 .. n -> OpenEntries(b, host)] : n \in 0 .. MaxOpenList} :
                  b = "unix" \/ \A i, j \in 1 .. Len(x) : i # j => x[i].name # x[j].name}}

InitCatalog ==
    /\ backend \in {"unix", "win32"}
    /\ host_devs \in Catalogs(backend)
    /\ serial_open_devices \in OpenLists(backend, host_devs)
    /\ os_open = {serial_open_devices[i].port : i \in 1 .. Len(serial_open_devices)}
    /\ closed = {}
    /\ before = <<>>
    /\ raw = <<>>
    /\ buffer = <<>>
    /\ brkset = {}
    /\ last = [op |-> "init", arg |-> <<>>, ret |-> 0, diag |-> "none"]

\* a call of sim_serial_devices (max, list): ret is the list it fills, of
\* the length it returns
serial_devices ==
    /\ \E max \in 0 .. MaxList :
          last' = [op |-> "devices", arg |-> max,
                   ret |-> sim_serial_devices(max, host_devs, serial_open_devices),
                   diag |-> "none"]
    /\ UNCHANGED <<backend, host_devs, portVars, readVars>>

NextCatalog == serial_devices

SpecCatalog == InitCatalog /\ [][NextCatalog]_vars

-----------------------------------------------------------------------------
(* Name resolution against those catalogs: sim_open_serial and              *)
(* sim_close_serial on a host whose ports are the catalogued and the        *)
(* unreported ones                                                          *)

\* most ports open at once here
MaxResolve == 1

ResolveHandles == 1 .. MaxResolve

\* the names the caller passes: "ser0", "SER1", "ser9", "ser999", "s1", "com1",
\* "com2", "COM", "com10", "/dev/ttys2", and the unreported ports
ResolveNames ==
    { <<115, 101, 114, 48>>, <<83, 69, 82, 49>>, <<115, 101, 114, 57>>,
      <<115, 101, 114, 57, 57, 57>>, <<115, 49>>, <<99, 111, 109, 49>>,
      <<99, 111, 109, 50>>, <<67, 79, 77>>, <<99, 111, 109, 49, 48>>,
      <<47, 100, 101, 118, 47, 116, 116, 121, 115, 50>> }
    \cup {Uncatalogued(backend)[i] : i \in 1 .. Len(Uncatalogued(backend))}

\* a string with its letters in lower case
Lower(str) == [i \in 1 .. Len(str) |-> tolower(str[i])]

\* what the host does with sim_open_os_serial (name): a name that is no port
\* is not found; Windows denies access to a port that is open (its device
\* names ignore letter case); the process has MaxResolve descriptors; else
\* the port is opened
ResolveOutcomes(name) ==
    LET isport == \/ \E i \in 1 .. Len(host_devs) : host_devs[i].name = name
                  \/ \E i \in 1 .. Len(Uncatalogued(backend)) :
                        Uncatalogued(backend)[i] = name
        inuse  == /\ backend = "win32"
                  /\ \E i \in 1 .. Len(serial_open_devices) :
                        Lower(serial_open_devices[i].name) = Lower(name)
        free   == ResolveHandles \ os_open
        fails(e) == {[step |-> IF backend = "unix" THEN "open" ELSE "CreateFile",
                      errno |-> e, port |-> INVALID_HANDLE]}
    IN  IF ~isport
        THEN fails(IF backend = "unix" THEN "ENOENT" ELSE "ERROR_FILE_NOT_FOUND")
        ELSE IF inuse THEN fails("ERROR_ACCESS_DENIED")
        ELSE IF free = {}
        THEN fails(IF backend = "unix" THEN "EMFILE" ELSE "ERROR_TOO_MANY_OPEN_FILES")
        ELSE {[step |-> "none", errno |-> "none", port |-> Min(free)]}

ResolveHost ==
    [n \in ResolveNames \cup {host_devs[i].name : i \in 1 .. Len(host_devs)} |->
        ResolveOutcomes(n)]

sim_open_serial_names == OpenSerial(ResolveNames, ResolveHost)

InitResolve ==
    /\ backend \in {"unix", "win32"}
    /\ host_devs \in Catalogs(backend)
    /\ serial_open_devices = <<>>
    /\ os_open = {}
    /\ closed = {}
    /\ before = <<>>
    /\ raw = <<>>
    /\ buffer = <<>>
    /\ brkset = {}
    /\ last = [op |-> "init", arg |-> <<>>, ret |-> 0, diag |-> "none"]

NextResolve == sim_open_serial_names \/ sim_close_serial

SpecResolve == InitResolve /\ [][NextResolve]_vars

-----------------------------------------------------------------------------
(* Initial state and the read specification *)

Init ==
    /\ backend \in {"unix", "win32"}
    /\ host_devs = HostDevices(backend)
    /\ serial_open_devices = <<>>
    /\ os_open = {}
    /\ closed = {}
    /\ before = <<>>
    /\ raw = <<>>
    /\ buffer = <<>>
    /\ brkset = {}
    /\ last = [op |-> "init", arg |-> <<>>, ret |-> 0, diag |-> "none"]

NextRead == sim_read_serial_unix \/ sim_read_serial_win32

SpecRead == Init /\ [][NextRead]_vars

NextPort == sim_open_serial \/ sim_close_serial

SpecPort == Init /\ [][NextPort]_vars

NextRegistry == serial_add_to_open_list \/ serial_remove_from_open_list

SpecRegistry == Init /\ [][NextRegistry]_vars

-----------------------------------------------------------------------------
(* sim_config_serial and sim_control_serial, per backend ("none": the      *)
(* section of non-implemented stubs)                                       *)

\* the SERCONFIG values passed: a rate of the UNIX table and one of no table;
\* a character size below, in and above 5 .. 8; parity 'N', 'M' (Windows
\* only) and 'X'; 1 stop bit, 0 (1.5 bits, Windows only) and 3
Configs ==
    [baudrate : {9600, 12345}, charsize : {4, 5, 8, 9},
     parity : {78, 77, 88}, stopbits : {1, 0, 3}]

\* the rates of baud_map
BaudRates ==
    {50, 75, 110, 134, 150, 200, 300, 600, 1200, 1800, 2400, 4800, 9600,
     19200, 38400, 57600, 115200}

\* the host failure an operation met: the call that failed and its error, if
\* the operation got as far as making that call
NoFailure == [step |-> "none", errno |-> "none"]
HostFailure(o, calls) ==
    IF o.step \in calls THEN [step |-> o.step, errno |-> o.errno] ELSE NoFailure

\* what tcgetattr and tcsetattr can do: step is the call that fails ("none":
\* both succeed); on a descriptor that is not open tcgetattr fails
UnixConfigOutcomes(port) ==
    IF port \notin os_open
    THEN {[step |-> "tcgetattr", errno |-> "EBADF"]}
    ELSE {[step |-> "tcgetattr", errno |-> "EIO"],
          [step |-> "tcsetattr", errno |-> "EINVAL"],
          [step |-> "tcsetattr", errno |-> "EIO"],
          [step |-> "none", errno |-> "none"]}

\* sim_config_serial (UNIX): [ret, diag, calls], calls the host calls made
ConfigUnix(config, o) ==
    IF o.step = "tcgetattr"
    THEN [ret |-> "SCPE_IOERR", diag |-> "tcgetattr", calls |-> {"tcgetattr"}]
    ELSE IF config.baudrate \notin BaudRates
    THEN [ret |-> "SCPE_ARG", diag |-> "none", calls |-> {"tcgetattr"}]
    ELSE IF ~(config.charsize >= 5 /\ config.charsize <= 8)
    THEN [ret |-> "SCPE_ARG", diag |-> "none", calls |-> {"tcgetattr"}]
    ELSE IF config.parity \notin {69, 78, 79}
    THEN [ret |-> "SCPE_ARG", diag |-> "none", calls |-> {"tcgetattr"}]
    ELSE IF config.stopbits # 1 /\ config.stopbits # 2
    THEN [ret |-> "SCPE_ARG", diag |-> "none", calls |-> {"tcgetattr"}]
    ELSE IF o.step = "tcsetattr"
    THEN [ret |-> "SCPE_IERR", diag |-> "tcsetattr",
          calls |-> {"tcgetattr", "tcsetattr"}]
    ELSE [ret |-> "SCPE_OK", diag |-> "none", calls |-> {"tcgetattr", "tcsetattr"}]

sim_config_serial_unix ==
    /\ backend = "unix"
    /\ \E port \in Handles, config \in Configs :
          \E o \in UnixConfigOutcomes(port) :
              \E r \in {ConfigUnix(config, o)} :
                  last' = [op |-> "config", arg |-> [port |-> port, config |-> config],
                           host |-> HostFailure(o, r.calls),
                           ret |-> r.ret, diag |-> r.diag]
    /\ UNCHANGED <<backend, host_devs, portVars, readVars>>

\* what GetCommState and SetCommState can do
WinConfigOutcomes(port) ==
    IF port \notin os_open
    THEN {[step |-> "GetCommState", errno |-> "ERROR_INVALID_HANDLE"]}
    ELSE {[step |-> "GetCommState", errno |-> "ERROR_GEN_FAILURE"],
          [step |-> "SetCommState", errno |-> "ERROR_INVALID_PARAMETER"],
          [step |-> "SetCommState", errno |-> "ERROR_GEN_FAILURE"],
          [step |-> "none", errno |-> "none"]}

\* sim_config_serial (Windows): [ret, diag, calls]
ConfigWin(config, o) ==
    IF o.step = "GetCommState"
    THEN [ret |-> "SCPE_IOERR", diag |-> "GetCommState", calls |-> {"GetCommState"}]
    ELSE IF ~(config.charsize >= 5 /\ config.charsize <= 8)
    THEN [ret |-> "SCPE_ARG", diag |-> "none", calls |-> {"GetCommState"}]
    ELSE IF config.parity \notin {69, 77, 78, 79, 83}
    THEN [ret |-> "SCPE_ARG", diag |-> "none", calls |-> {"GetCommState"}]
    ELSE IF config.stopbits # 1 /\ config.stopbits # 2 /\ config.stopbits # 0
    THEN [ret |-> "SCPE_ARG", diag |-> "none", calls |-> {"GetCommState"}]
    ELSE IF o.step = "SetCommState"
    THEN IF o.errno = "ERROR_INVALID_PARAMETER"
         THEN [ret |-> "SCPE_ARG", diag |-> "none",
               calls |-> {"GetCommState", "SetCommState"}]
         ELSE [ret |-> "SCPE_IOERR", diag |-> "SetCommState",
               calls |-> {"GetCommState", "SetCommState"}]
    ELSE [ret |-> "SCPE_OK", diag |-> "none",
          calls |-> {"GetCommState", "SetCommState"}]

sim_config_serial_win32 ==
    /\ backend = "win32"
    /\ \E port \in Handles, config \in Configs :
          \E o \in WinConfigOutcomes(port) :
              \E r \in {ConfigWin(config, o)} :
                  last' = [op |-> "config", arg |-> [port |-> port, config |-> config],
                           host |-> HostFailure(o, r.calls),
                           ret |-> r.ret, diag |-> r.diag]
    /\ UNCHANGED <<backend, host_devs, portVars, readVars>>

\* sim_config_serial (stub): no host call is made
sim_config_serial_stub ==
    /\ backend = "none"
    /\ \E port \in Handles, config \in Configs :
          last' = [op |-> "config", arg |-> [port |-> port, config |-> config],
                   host |-> NoFailure,
                   ret |-> "SCPE_IERR", diag |-> "none"]
    /\ UNCHANGED <<backend, host_devs, portVars, readVars>>

\* what ioctl (port, TIOCMBIS / TIOCMBIC, &dtr) can do
UnixControlOutcomes(port) ==
    IF port \notin os_open
    THEN {[step |-> "ioctl", errno |-> "EBADF"]}
    ELSE {[step |-> "ioctl", errno |-> "EINVAL"],
          [step |-> "ioctl", errno |-> "EIO"],
          [step |-> "none", errno |-> "none"]}

\* sim_control_serial (UNIX): [ret, diag]
ControlUnix(o) ==
    IF o.step = "ioctl"
    THEN [ret |-> FALSE, diag |-> IF o.errno # "EINVAL" THEN "ioctl" ELSE "none"]
    ELSE [ret |-> TRUE, diag |-> "none"]

sim_control_serial_unix ==
    /\ backend = "unix"
    /\ \E port \in Handles, connect \in BOOLEAN :
          \E o \in UnixControlOutcomes(port) :
              \E r \in {ControlUnix(o)} :
                  last' = [op |-> "control", arg |-> [port |-> port, connect |-> connect],
                           host |-> o, ret |-> r.ret, diag |-> r.diag]
    /\ UNCHANGED <<backend, host_devs, portVars, readVars>>

\* what EscapeCommFunction (port, SETDTR / CLRDTR) can do
WinControlOutcomes(port) ==
    IF port \notin os_open
    THEN {[step |-> "EscapeCommFunction", errno |-> "ERROR_INVALID_HANDLE"]}
    ELSE {[step |-> "EscapeCommFunction", errno |-> "ERROR_NOT_SUPPORTED"],
          [step |-> "EscapeCommFunction", errno |-> "ERROR_GEN_FAILURE"],
          [step |-> "none", errno |-> "none"]}

\* sim_control_serial (Windows): [ret, diag]
ControlWin(o) ==
    IF o.step = "EscapeCommFunction"
    THEN [ret |-> FALSE, diag |-> "EscapeCommFunction"]
    ELSE [ret |-> TRUE, diag |-> "none"]

sim_control_serial_win32 ==
    /\ backend = "win32"
    /\ \E port \in Handles, connect \in BOOLEAN :
          \E o \in WinControlOutcomes(port) :
              \E r \in {ControlWin(o)} :
                  last' = [op |-> "control", arg |-> [port |-> port, connect |-> connect],
                           host |-> o, ret |-> r.ret, diag |-> r.diag]
    /\ UNCHANGED <<backend, host_devs, portVars, readVars>>

\* sim_control_serial (stub)
sim_control_serial_stub ==
    /\ backend = "none"
    /\ \E port \in Handles, connect \in BOOLEAN :
          last' = [op |-> "control", arg |-> [port |-> port, connect |-> connect],
                   host |-> NoFailure,
                   ret |-> FALSE, diag |-> "none"]
    /\ UNCHANGED <<backend, host_devs, portVars, readVars>>

\* no port is open, or the first port of the host's list is, by its name
InitConfig ==
    /\ backend \in {"unix", "win32", "none"}
    /\ host_devs = IF backend = "none" THEN <<>> ELSE HostDevices(backend)
    /\ serial_open_devices \in
          {<<>>} \cup {<<[port |-> 1, line |-> "ln0", name |-> host_devs[i].name,
                          desc |-> host_devs[i].desc]>> : i \in {1} \cap DOMAIN host_devs}
    /\ os_open = {serial_open_devices[i].port : i \in 1 .. Len(serial_open_devices)}
    /\ closed = {}
    /\ before = <<>>
    /\ raw = <<>>
    /\ buffer = <<>>
    /\ brkset = {}
    /\ last = [op |-> "init", arg |-> <<>>, ret |-> 0, diag |-> "none"]

NextConfig ==
    \/ sim_config_serial_unix
    \/ sim_config_serial_win32
    \/ sim_config_serial_stub
    \/ sim_control_serial_unix
    \/ sim_control_serial_win32
    \/ sim_control_serial_stub

SpecConfig == InitConfig /\ [][NextConfig]_vars

-----------------------------------------------------------------------------
(* The host enumeration on its own: sim_serial_os_devices (max, list) of    *)
(* each backend, slot by slot.  The caller's array has the slots 0 .. max-1 *)
(* and the state of an enumeration is [list, slots]: the entries counted so *)
(* far (ports = Len(list)) and the slots of the array it has stored into.   *)
(* Memory past the array belongs to the caller and is not held here.        *)

\* largest max passed to sim_serial_os_devices
MaxEnum == 2

\* most values under the SERIALCOMM registry key
MaxValues == 3

\* device numbers probed per family: for (i=0; (ports < max) && (i < 64); ++i)
ProbeCount == 64

\* "/dev/ttyS" and "/dev/ttyUSB"
TtyS == <<47, 100, 101, 118, 47, 116, 116, 121, 83>>
TtyUSB == <<47, 100, 101, 118, 47, 116, 116, 121, 85, 83, 66>>

\* sprintf's %d for i >= 0
RECURSIVE sprintf_d(_)
sprintf_d(i) ==
    IF i < 10 THEN <<48 + i>> ELSE sprintf_d(i \div 10) \o <<48 + (i % 10)>>

\* memset (list, 0, max*sizeof(*list)); ports = 0;
EnumInit(max) == [list |-> <<>>, slots |-> 0 .. max - 1]

\* the device nodes a UNIX host can have among the probed names: each of
\* /dev/ttyS0, /dev/ttyS1, /dev/ttyS63, /dev/ttyUSB0 is absent, a terminal
\* ("tty") or something else that can be opened ("file")
UnixNodes ==
    LET paths == <<TtyS \o sprintf_d(0), TtyS \o sprintf_d(1),
                   TtyS \o sprintf_d(ProbeCount - 1), TtyUSB \o sprintf_d(0)>>
    IN  {SelectSeq([i \in 1 .. Len(paths) |->
                       [name |-> paths[i], desc |-> <<>>, kind |-> f[i]]],
                   LAMBDA e : e.kind # "absent") :
            f \in [1 .. Len(paths) -> {"absent", "tty", "file"}]}

\* one probing loop of the UNIX sim_serial_os_devices, from device number i
RECURSIVE UnixProbe(_, _, _, _, _)
UnixProbe(st, prefix, i, max, host) ==
    IF ~(Len(st.list) < max /\ i < ProbeCount) THEN st
    ELSE LET name    == prefix \o sprintf_d(i)
             written == st.slots \cup {Len(st.list)}
         IN  IF \E k \in 1 .. Len(host) :
                    host[k].name = name /\ host[k].kind = "tty"
             THEN UnixProbe([list |-> Append(st.list, [name |-> name, desc |-> <<>>]),
                             slots |-> written], prefix, i + 1, max, host)
             ELSE UnixProbe([st EXCEPT !.slots = written], prefix, i + 1, max, host)

\* sim_serial_os_devices (UNIX)
EnumUnix(max, host) ==
    UnixProbe(UnixProbe(EnumInit(max), TtyS, 0, max, host), TtyUSB, 0, max, host)

\* the values RegEnumValueA can return under SERIALCOMM, in index order: the
\* i-th one is a string "COMi" (value name "Si"), a string without data, or
\* a value of another type
RegValues ==
    UNION {[1 .. n -> {"REG_SZ", "empty", "REG_DWORD"}] : n \in 0 .. MaxValues}

RegValue(f, i) ==
    [name |-> IF f[i] = "REG_SZ" THEN <<67, 79, 77>> \o sprintf_d(i) ELSE <<>>,
     desc |-> <<83>> \o sprintf_d(i),
     kind |-> IF f[i] = "REG_DWORD" THEN "REG_DWORD" ELSE "REG_SZ"]

WinValues == {[i \in 1 .. Len(f) |-> RegValue(f, i)] : f \in RegValues}

\* the while loop of the Windows sim_serial_os_devices, from value dwIndex:
\* RegEnumValueA stores a value it returns into list[ports]
RECURSIVE WinEnumLoop(_, _, _, _)
WinEnumLoop(st, dwIndex, max, values) ==
    IF dwIndex >= Len(values) THEN st
    ELSE LET ports  == Len(st.list)
             v      == values[dwIndex + 1]
             stored == st.slots \cup {ports}
         IN  IF v.kind = "REG_SZ" /\ Len(v.name) > 0
             THEN IF ports < max
                  THEN WinEnumLoop([list |-> Append(st.list,
                                                    [name |-> v.name, desc |-> v.desc]),
                                    slots |-> stored \cup {ports + 1}],
                                   dwIndex + 1, max, values)
                  ELSE [st EXCEPT !.slots = stored]
             ELSE WinEnumLoop([st EXCEPT !.slots = stored], dwIndex + 1, max, values)

\* sim_serial_os_devices (Windows)
EnumWin(max, values) == WinEnumLoop(EnumInit(max), 0, max, values)

InitEnum ==
    /\ backend \in {"unix", "win32"}
    /\ host_devs \in (IF backend = "unix" THEN UnixNodes ELSE WinValues)
    /\ serial_open_devices = <<>>
    /\ os_open = {}
    /\ closed = {}
    /\ before = <<>>
    /\ raw = <<>>
    /\ buffer = <<>>
    /\ brkset = {}
    /\ last = [op |-> "init", arg |-> <<>>, ret |-> 0, diag |-> "none"]

\* a call of sim_serial_os_devices (max, list): ret is the count returned
sim_serial_os_devices_unix ==
    /\ backend = "unix"
    /\ \E max \in 0 .. MaxEnum :
          \E r \in {EnumUnix(max, host_devs)} :
              last' = [op |-> "os_devices", arg |-> max, ret |-> Len(r.list),
                       list |-> r.list, slots |-> r.slots, diag |-> "none"]
    /\ UNCHANGED <<backend, host_devs, portVars, readVars>>

sim_serial_os_devices_win32 ==
    /\ backend = "win32"
    /\ \E max \in 0 .. MaxEnum :
          \E r \in {EnumWin(max, host_devs)} :
              last' = [op |-> "os_devices", arg |-> max, ret |-> Len(r.list),
                       list |-> r.list, slots |-> r.slots, diag |-> "none"]
    /\ UNCHANGED <<backend, host_devs, portVars, readVars>>

NextEnum == sim_serial_os_devices_unix \/ sim_serial_os_devices_win32

SpecEnum == InitEnum /\ [][NextEnum]_vars

-----------------------------------------------------------------------------
(* Reference decoding of Encoding A, as the specification words it: scan   *)
(* left to right; ESC ESC gives one ESC; ESC NUL C gives C; anything else  *)
(* is copied; a produced byte is not looked at again.                      *)

RECURSIVE RefDecodeFrom(_, _)
RefDecodeFrom(r, i) ==
    IF i > Len(r) THEN <<>>
    ELSE IF r[i] = ESC /\ i + 1 <= Len(r) /\ r[i + 1] = ESC
         THEN <<ESC>> \o RefDecodeFrom(r, i + 2)
    ELSE IF r[i] = ESC /\ i + 2 <= Len(r) /\ r[i + 1] = NUL
         THEN <<r[i + 2]>> \o RefDecodeFrom(r, i + 3)
    ELSE <<r[i]>> \o RefDecodeFrom(r, i + 1)

RefDecode(r) == RefDecodeFrom(r, 1)

\* output positions (0-based) produced by collapsing ESC NUL NUL
RECURSIVE RefBreaksFrom(_, _, _)
RefBreaksFrom(r, i, out) ==
    IF i > Len(r) THEN {}
    ELSE IF r[i] = ESC /\ i + 1 <= Len(r) /\ r[i + 1] = ESC
         THEN RefBreaksFrom(r, i + 2, out + 1)
    ELSE IF r[i] = ESC /\ i + 2 <= Len(r) /\ r[i + 1] = NUL
         THEN (IF r[i + 2] = NUL THEN {out} ELSE {})
              \cup RefBreaksFrom(r, i + 3, out + 1)
    ELSE RefBreaksFrom(r, i + 1, out + 1)

RefBreaks(r) == RefBreaksFrom(r, 1, 0)

\* positions (1-based) of r at which the reference scan starts a sequence or
\* a plain byte, i.e. bytes not consumed as the tail of an earlier sequence
RECURSIVE RefStartsFrom(_, _)
RefStartsFrom(r, i) ==
    IF i > Len(r) THEN {}
    ELSE IF r[i] = ESC /\ i + 1 <= Len(r) /\ r[i + 1] = ESC
         THEN {i} \cup RefStartsFrom(r, i + 2)
    ELSE IF r[i] = ESC /\ i + 2 <= Len(r) /\ r[i + 1] = NUL
         THEN {i} \cup RefStartsFrom(r, i + 3)
    ELSE {i} \cup RefStartsFrom(r, i + 1)

\* length of the sequence left incomplete at the end of r: 1 for a final ESC,
\* 2 for a final ESC NUL, 0 when r ends on a complete sequence or plain byte
IncompleteTail(r) ==
    IF Len(r) >= 2 /\ r[Len(r) - 1] = ESC /\ r[Len(r)] = NUL
       /\ (Len(r) - 1) \in RefStartsFrom(r, 1)
    THEN 2
    ELSE IF Len(r) >= 1 /\ r[Len(r)] = ESC /\ Len(r) \in RefStartsFrom(r, 1)
    THEN 1
    ELSE 0

UnixReadDone == backend = "unix" /\ last.op = "read" /\ last.arg.errno = "none"
WinReadDone == backend = "win32" /\ last.op = "read" /\ ~last.arg.failed

-----------------------------------------------------------------------------
(* C1: the characters sim_read_serial (UNIX) returns are the left-to-right *)
(* reference decoding of the bytes the host read delivered, for any number *)
(* of sequences in the read.                                               *)
C1_DecodeMatchesReference ==
    UnixReadDone => Returned(buffer, last.ret) = RefDecode(raw)

\* a read holding an ESC ESC pair followed by an ESC NUL C triple
C1_Witness ==
    /\ UnixReadDone
    /\ raw = <<ESC, ESC, ESC, NUL, DataByte>>
    /\ Returned(buffer, last.ret) = <<ESC, DataByte>>

(* C2: the brk slots the read sets (so, with brk clear before the read,    *)
(* the slots set afterwards) are exactly the output positions p whose      *)
(* character came from collapsing ESC NUL NUL; p is an output index.       *)
C2_BreakAtOutputPosition ==
    UnixReadDone => brkset = RefBreaks(raw)

\* a BREAK after an earlier collapse: raw index 2, output index 1
C2_Witness ==
    /\ UnixReadDone
    /\ raw = <<ESC, ESC, ESC, NUL, NUL>>
    /\ brkset = {1}

(* C3: on both backends every brk slot a successful read sets has an index *)
(* below the number of characters the read returns.                        *)
C3_FlagsWithinReturned ==
    (last.op = "read" /\ last.ret >= 0) => \A p \in brkset : p < last.ret

(* C4: a sequence left incomplete at the end of a read (a final ESC, or a  *)
(* final ESC NUL without payload) is passed through: the output is the     *)
(* decoding of the bytes before it followed by those bytes unchanged, the  *)
(* count includes them, and no brk slot is set for them.                   *)
C4_IncompleteTailPassedThrough ==
    (UnixReadDone /\ IncompleteTail(raw) > 0) =>
        LET k    == IncompleteTail(raw)
            head == UnixDecode(SubSeq(raw, 1, Len(raw) - k))
        IN  /\ last.ret = head.read_count + k
            /\ Returned(buffer, last.ret) =
                   Returned(head.buf, head.read_count)
                   \o SubSeq(raw, Len(raw) - k + 1, Len(raw))
            /\ \A p \in brkset : p < last.ret - k

\* a final ESC NUL after a collapsed pair
C4_Witness ==
    /\ UnixReadDone
    /\ raw = <<ESC, ESC, DataByte, ESC, NUL>>
    /\ Returned(buffer, last.ret) = <<ESC, DataByte, ESC, NUL>>

(* C5: sim_read_serial (Windows): when the host reports a BREAK exactly    *)
(* one brk slot is set, at the first NUL among the bytes returned or at 0  *)
(* when none is NUL; the bytes are returned unmodified; without a reported *)
(* BREAK no slot is set.                                                   *)
C5_WinBreakHeuristic ==
    WinReadDone =>
        /\ last.ret = Len(raw)
        /\ Returned(buffer, last.ret) = raw
        /\ ~last.arg.ce_break => brkset = {}
        /\ last.arg.ce_break =>
              LET nuls == {i \in 0 .. Len(raw) - 1 : raw[i + 1] = NUL}
              IN  \E p \in 0 .. MaxWinRead :
                     /\ brkset = {p}
                     /\ IF nuls = {} THEN p = 0
                        ELSE p \in nuls /\ \A q \in nuls : p <= q

\* a reported BREAK with two NULs in the read, the first at index 1
C5_Witness ==
    /\ WinReadDone
    /\ last.arg.ce_break
    /\ raw = <<DataByte, NUL, DataByte, NUL>>
    /\ brkset = {1}

(* C6: a successful read returns at least 0 and at most as many characters *)
(* as the host read supplied.                                              *)
C6_CountWithinSupplied ==
    (last.op = "read" /\ last.ret # -1) => (last.ret >= 0 /\ last.ret <= Len(raw))

\* a read that returns fewer characters than the host supplied
C6_Witness ==
    /\ UnixReadDone
    /\ raw = <<ESC, NUL, DataByte, ESC, ESC>>
    /\ last.ret = 2

-----------------------------------------------------------------------------
(* Claims about the registry and the port session *)

\* the handles that have an entry in the open-device list
RegisteredPorts == {serial_open_devices[i].port : i \in 1 .. Len(serial_open_devices)}

(* C7: after any sequence of sim_open_serial and sim_close_serial calls    *)
(* the list holds an entry (exactly one) for handle h if and only if h is  *)
(* open at OS level; an open that returns INVALID_HANDLE adds no entry and *)
(* a close leaves no entry for the handle it was given.                    *)
C7_EntryIffLive ==
    /\ \A h \in Handles \cup {INVALID_HANDLE} :
          (h \in RegisteredPorts) <=> (h \in os_open)
    /\ Cardinality(RegisteredPorts) = Len(serial_open_devices)
    /\ (last.op = "open" /\ last.ret = INVALID_HANDLE) => serial_open_devices = before
    /\ (last.op = "open" /\ last.ret # INVALID_HANDLE) =>
          Len(serial_open_devices) = Len(before) + 1
    /\ last.op = "close" => last.arg \notin RegisteredPorts

\* a close has just removed one of two entries
C7_Witness ==
    /\ last.op = "close"
    /\ Len(before) = 2
    /\ Len(serial_open_devices) = 1
    /\ RegisteredPorts = os_open

(* C8 as claimed: closing a handle that was closed before changes neither  *)
(* the ports open at OS level nor the list, whatever was opened since.     *)
C8_SecondCloseNeverAffectsOthers ==
    [][(last'.op = "close" /\ last'.arg \in closed)
         => (os_open' = os_open /\ serial_open_devices' = serial_open_devices)]_vars

(* C8 amended: closing a handle that was closed before and that no later   *)
(* open has been given again reports nothing and changes neither the ports *)
(* open at OS level nor the list.                                          *)
C8_StaleCloseAffectsNothing ==
    [][(last'.op = "close" /\ last'.arg \in closed /\ last'.arg \notin os_open)
         => /\ os_open' = os_open
            /\ serial_open_devices' = serial_open_devices
            /\ last'.diag = "none"]_vars

\* a second close of a handle while another port is open
C8_Witness ==
    /\ last.op = "close"
    /\ last.arg \in closed
    /\ last.arg \notin os_open
    /\ serial_open_devices = before
    /\ Len(serial_open_devices) = 1

(* C9: registering a handle and then unregistering it leaves the list as   *)
(* it was before the registration: same length, same entries, same order.  *)
C9_AddThenRemoveRestores ==
    [][(last.op = "add" /\ last'.op = "remove" /\ last'.arg = last.arg)
         => serial_open_devices' = before]_vars

\* the entry registered last has just been removed from a list of three
C9_Witness ==
    /\ last.op = "remove"
    /\ Len(before) = 3
    /\ before[3].port = last.arg
    /\ serial_open_devices = SubSeq(before, 1, 2)

\* the list without its first entry for handle h (the list itself if none)
WithoutFirst(list, h) ==
    IF \A i \in 1 .. Len(list) : list[i].port # h THEN list
    ELSE LET i == CHOOSE k \in 1 .. Len(list) :
                     /\ list[k].port = h
                     /\ \A m \in 1 .. k - 1 : list[m].port # h
         IN  SubSeq(list, 1, i - 1) \o SubSeq(list, i + 1, Len(list))

(* C10: unregistering h removes exactly the first entry whose handle is h  *)
(* and keeps the other entries, unchanged, in their order; without such an *)
(* entry the list is unchanged.                                            *)
C10_RemoveShiftsLeft ==
    last.op = "remove" => serial_open_devices = WithoutFirst(before, last.arg)

\* the first of three entries has just been removed
C10_Witness ==
    /\ last.op = "remove"
    /\ Len(before) = 3
    /\ before[1].port = last.arg
    /\ serial_open_devices = <<before[2], before[3]>>


-----------------------------------------------------------------------------
(* The catalog, as the specification words it *)

\* the entries of the open-device list the merge may append: those whose name
\* is neither in the host's list nor the name of an earlier open entry
RECURSIVE ExtraFrom(_, _, _)
ExtraFrom(hostlist, open, k) ==
    IF k > Len(open) THEN <<>>
    ELSE IF \/ \E j \in 1 .. Len(hostlist) : hostlist[j].name = open[k].name
            \/ \E j \in 1 .. k - 1 : open[j].name = open[k].name
         THEN ExtraFrom(hostlist, open, k + 1)
         ELSE <<[name |-> open[k].name, desc |-> open[k].desc]>>
              \o ExtraFrom(hostlist, open, k + 1)

\* a is before b in byte order, or equal to it
RECURSIVE BytesLeq(_, _)
BytesLeq(a, b) ==
    IF a = <<>> THEN TRUE
    ELSE IF b = <<>> THEN FALSE
    ELSE IF Head(a) # Head(b) THEN Head(a) < Head(b)
    ELSE BytesLeq(Tail(a), Tail(b))

Range(f) == {f[i] : i \in DOMAIN f}

\* C11: sim_serial_devices(max) returns at most max entries: every device the
\* host enumeration returned, then the open-device entries whose names are not
\* in the host's list, taken in the order of the open-device list until max
\* entries are reached, the whole sorted ascending by name, byte by byte.
C11_CatalogMergedAndSorted ==
    last.op = "devices" =>
        LET max      == last.arg
            list     == last.ret
            hostlist == SubSeq(host_devs, 1,
                               IF Len(host_devs) < max THEN Len(host_devs) ELSE max)
            extra    == ExtraFrom(hostlist, serial_open_devices, 1)
            room     == max - Len(hostlist)
            added    == SubSeq(extra, 1, IF Len(extra) < room THEN Len(extra) ELSE room)
        IN  /\ Len(list) <= max
            /\ Len(list) = Len(hostlist) + Len(added)
            /\ Range(list) = Range(hostlist) \cup Range(added)
            /\ \A i \in 1 .. Len(list) - 1 : BytesLeq(list[i].name, list[i + 1].name)

\* an open port the host did not report is in the list, another one did not
\* fit, and the sort moved the appended entry to the front
C11_Witness ==
    /\ last.op = "devices"
    /\ last.arg = MaxList
    /\ Len(last.ret) = MaxList
    /\ Len(ExtraFrom(host_devs, serial_open_devices, 1)) > MaxList - Len(host_devs)
    /\ \E i \in 1 .. Len(serial_open_devices) :
          /\ last.ret[1].name = serial_open_devices[i].name
          /\ \A j \in 1 .. Len(host_devs) : host_devs[j].name # last.ret[1].name


-----------------------------------------------------------------------------
(* Name resolution, as the specification words it *)

\* the catalog sim_open_serial worked on in the step just taken, and the one
\* it would work on now
CatalogBefore == sim_serial_devices(SER_MAX_DEVICE, host_devs, before)
CatalogNow == sim_serial_devices(SER_MAX_DEVICE, host_devs, serial_open_devices)

\* the 0-based index of the entry of that name, -1 if there is none
IndexOf(list, name) ==
    IF \E i \in 1 .. Len(list) : list[i].name = name
    THEN Min({i \in 1 .. Len(list) : list[i].name = name}) - 1
    ELSE -1

\* the number a string of decimal digits denotes
RECURSIVE DigitsValue(_)
DigitsValue(d) ==
    IF d = <<>> THEN 0
    ELSE 10 * DigitsValue(SubSeq(d, 1, Len(d) - 1)) + (d[Len(d)] - 48)

\* the index i of a string "ser" (in any letter case) followed by the decimal
\* digits of i; -1 for any other string
SerIndex(str) ==
    IF /\ Len(str) >= 4
       /\ Lower(SubSeq(str, 1, 3)) = <<115, 101, 114>>
       /\ \A k \in 4 .. Len(str) : str[k] \in 48 .. 57
    THEN DigitsValue(SubSeq(str, 4, Len(str)))
    ELSE -1

\* C12: across any sequence of opens and closes (by index, description, name
\* or pass-through name) every host device keeps the index it has in the
\* catalog, so "ser<i>" keeps resolving to the same device.
C12_IndicesStable ==
    \A i \in 1 .. Len(host_devs) :
        IndexOf(CatalogNow, host_devs[i].name) =
            IndexOf(sim_serial_devices(SER_MAX_DEVICE, host_devs, <<>>),
                    host_devs[i].name)

\* C13: for every index i within the catalog, "ser" followed by the digits of
\* i, in any letter case, resolves to exactly the name and the description of
\* catalog entry i, whatever the catalog holds.
C13_IndexedYieldsEntry ==
    (/\ last.op = "open"
     /\ SerIndex(last.arg) >= 0
     /\ SerIndex(last.arg) < Len(CatalogBefore)) =>
        /\ last.savname = CatalogBefore[SerIndex(last.arg) + 1].name
        /\ last.savdesc = CatalogBefore[SerIndex(last.arg) + 1].desc

\* C14: "ser" followed by digits whose index is outside the catalog ("ser999"
\* included) is not found: sim_open_serial returns INVALID_HANDLE, the string
\* is not handed to the OS open as a device name, no registry entry is added.
C14_OutOfRangeNotFound ==
    (/\ last.op = "open"
     /\ SerIndex(last.arg) >= Len(CatalogBefore)) =>
        /\ last.ret = INVALID_HANDLE
        /\ last.savname = NullStr
        /\ serial_open_devices = before


\* the catalog entries (1-based) whose description, respectively name, has the
\* length of the string and its characters, letter case ignored
DescEqual(list, str) == {i \in 1 .. Len(list) : Lower(list[i].desc) = Lower(str)}
NameEqual(list, str) == {i \in 1 .. Len(list) : Lower(list[i].name) = Lower(str)}

IndexedForm(str) ==
    /\ Len(str) \in {4, 5}
    /\ Lower(SubSeq(str, 1, 3)) = <<115, 101, 114>>
    /\ \A k \in 4 .. Len(str) : str[k] \in 48 .. 57

-----------------------------------------------------------------------------
(* Configuration status and diagnostics, as the specification words them *)

ConfigDone == last.op = "config"

\* the configuration has a value the backend's own tests and tables refuse
\* (the stub section has no table; the character size is the range every
\* backend is said to validate)
LocallyInvalid(config) ==
    \/ ~(config.charsize \in 5 .. 8)
    \/ /\ backend = "unix"
       /\ \/ config.baudrate \notin BaudRates
          \/ config.parity \notin {69, 78, 79}
          \/ config.stopbits \notin {1, 2}
    \/ /\ backend = "win32"
       /\ \/ config.parity \notin {69, 77, 78, 79, 83}
          \/ config.stopbits \notin {0, 1, 2}

\* the host refused the configuration when it was applied
HostRejected(host) ==
    \/ host.step = "tcsetattr" /\ host.errno = "EINVAL"
    \/ host.step = "SetCommState" /\ host.errno = "ERROR_INVALID_PARAMETER"

\* C17: sim_config_serial with a character size outside 5 .. 8 returns
\* SCPE_ARG on every backend, whatever the other fields of the configuration
\* and the state of the handle.
C17_BadCharSizeIsArg ==
    (ConfigDone /\ ~(last.arg.config.charsize \in 5 .. 8)) => last.ret = "SCPE_ARG"

\* C18: sim_config_serial returns SCPE_OK, SCPE_ARG or SCPE_IOERR and nothing
\* else: SCPE_ARG for every configuration that is locally invalid or that the
\* host rejects when it is applied, SCPE_IOERR for every other host failure,
\* SCPE_OK otherwise, on each backend.
C18_ConfigStatus ==
    ConfigDone =>
        /\ last.ret \in {"SCPE_OK", "SCPE_ARG", "SCPE_IOERR"}
        /\ last.ret = IF LocallyInvalid(last.arg.config) \/ HostRejected(last.host)
                      THEN "SCPE_ARG"
                      ELSE IF last.host.step # "none" THEN "SCPE_IOERR"
                      ELSE "SCPE_OK"

\* a failed open that is an expected outcome: the name is not found, the port
\* is busy or access is denied, or what was opened is no serial port
ExpectedOpenFailure(host) ==
    \/ host.errno \in {"ENOENT", "EACCES", "EBUSY",
                       "ERROR_FILE_NOT_FOUND", "ERROR_ACCESS_DENIED"}
    \/ host.step = "isatty"
    \/ /\ host.step \in {"GetDefaultCommConfig", "GetCommState"}
       /\ host.errno = "ERROR_INVALID_PARAMETER"

\* the operation just done met a host failure that is not one of the expected
\* ones: not found or busy for open, a rejected configuration for configure,
\* no DTR support for control, nothing available for read
UnexpectedFailure ==
    IF last.op = "open"
    THEN last.host.step # "none" /\ ~ExpectedOpenFailure(last.host)
    ELSE IF last.op = "config"
    THEN last.host.step # "none" /\ ~HostRejected(last.host)
    ELSE IF last.op = "control"
    THEN /\ last.host.step # "none"
         /\ last.host.errno \notin {"EINVAL", "ERROR_NOT_SUPPORTED"}
    ELSE IF last.op = "read"
    THEN IF backend = "unix" THEN last.arg.errno \notin {"none", "EAGAIN"}
         ELSE last.arg.failed
    ELSE FALSE

\* the value an operation returns when it fails
FailureValue ==
    IF last.op = "open" THEN INVALID_HANDLE
    ELSE IF last.op = "config" THEN "SCPE_IOERR"
    ELSE IF last.op = "control" THEN FALSE
    ELSE -1

\* C19: an operation emits a diagnostic exactly when it fails with an
\* unexpected host error: never for an open that fails with not found or
\* busy / access denied, a configure that returns SCPE_ARG (host-rejected
\* configurations included), a control the host does not support, or a read
\* that finds nothing; every other host failure emits one and the operation
\* returns its failure value.
C19_DiagnosticIffUnexpected ==
    last.op \in {"open", "config", "control", "read"} =>
        /\ (last.diag # "none") <=> UnexpectedFailure
        /\ UnexpectedFailure => last.ret = FailureValue
        /\ (last.op = "config" /\ last.ret = "SCPE_ARG") => last.diag = "none"

\* C20: sim_read_serial returns at once; when the host has no data it returns
\* 0 without a diagnostic and without touching the brk array, never -1; it
\* returns -1 exactly when the host read fails for another reason.
C20_NoDataIsEmptySuccess ==
    last.op = "read" =>
        LET nodata == IF backend = "unix"
                      THEN \/ last.arg.errno = "EAGAIN"
                           \/ (last.arg.errno = "none" /\ raw = <<>>)
                      ELSE ~last.arg.failed /\ raw = <<>>
            failed == IF backend = "unix"
                      THEN last.arg.errno \notin {"none", "EAGAIN"}
                      ELSE last.arg.failed
        IN  /\ nodata => (last.ret = 0 /\ last.diag = "none" /\ brkset = {})
            /\ (last.ret = -1) <=> failed

-----------------------------------------------------------------------------
(* Claims about split reads, the bounds of the in-place compaction and the *)
(* bounds of the host enumeration                                          *)

\* the brk slots of a second read, counted from the start of the first
ShiftFlags(flags, k) == {p + k : p \in flags}

\* two successful UNIX reads in a row, the second one delivering bytes
TwoUnixReads ==
    /\ UnixReadDone
    /\ backend' = "unix" /\ last'.op = "read" /\ last'.arg.errno = "none"

(* C21: decoding does not depend on the split: the characters and BREAK    *)
(* flags of two consecutive UNIX reads, concatenated, are the characters   *)
(* and flags sim_read_serial yields for the same bytes delivered by one    *)
(* read.                                                                   *)
C21_SplitIndependent ==
    [][TwoUnixReads =>
          LET whole == UnixDecode(raw \o raw')
          IN  /\ Returned(buffer, last.ret) \o Returned(buffer', last'.ret)
                     = Returned(whole.buf, whole.read_count)
              /\ brkset \cup ShiftFlags(brkset', last.ret) = whole.brk]_vars

(* C22: while sim_read_serial (UNIX) compacts the buffer in place, every   *)
(* byte it examines, the source and the destination of every memmove and   *)
(* every brk slot it sets lie within the first N positions, N being the    *)
(* number of bytes read() delivered; no memmove has a negative length; and *)
(* the loop ends: each pass lowers "remaining" and there are fewer than N  *)
(* passes (none for N = 0).                                                *)
C22_CompactionWithinRead ==
    UnixReadDone =>
        LET N      == Len(raw)
            passes == ScanPasses(ScanInit(raw))
        IN  /\ \A a \in ScanAccesses(raw) :
                  a.len >= 0 /\ a.lo >= 0 /\ a.lo + a.len <= N
            /\ \A i \in 1 .. Len(passes) - 1 :
                  /\ passes[i + 1].remaining < passes[i].remaining
                  /\ passes[i + 1].cptr > passes[i].cptr
            /\ Len(passes) - 1 <= (IF N = 0 THEN 0 ELSE N - 1)

\* a BREAK triple, then an ESC pair ending the read: two passes, a brk slot
\* written and a memmove of length 0 whose source starts past the last byte
\* still in use
C22_Witness ==
    /\ UnixReadDone
    /\ raw = <<ESC, NUL, NUL, ESC, ESC>>
    /\ Len(ScanPasses(ScanInit(raw))) = 3
    /\ Access("brk", 0, 1) \in ScanAccesses(raw)
    /\ Access("memmove src", 3, 0) \in ScanAccesses(raw)
    /\ Access("memmove src", 2, 3) \in ScanAccesses(raw)

\* C23: sim_serial_os_devices of either backend returns at most max entries
\* and stores into no slot of the caller's array with an index of max or
\* more, whatever the number of serial devices the host has.
C23_EnumerationWithinMax ==
    last.op = "os_devices" =>
        /\ last.ret <= last.arg
        /\ \A k \in last.slots : k >= 0 /\ k < last.arg

=============================================================================
